---- MODULE Spec2Model ----
(***************************************************************************)
(* A state-machine model of src/misc/openvas_server.c: the GnuTLS based    *)
(* connection functions openvas_server_open, _close, _connect, _attach,    *)
(* _send, _sendf_xml, _new and _free.  One caller drives one session;      *)
(* every library and system call the code makes is a step whose outcome    *)
(* is drawn from the outcomes the code distinguishes.  Spec has the caller *)
(* keep to the documented use, SpecAnyCaller lets it call in any order,    *)
(* SpecXml is openvas_server_sendf_xml over a set of formats and           *)
(* arguments, SpecUnbounded has the retry loops turn without a bound,      *)
(* SpecThreads has two threads in openvas_server_send.                     *)
(***************************************************************************)
EXTENDS Integers, Sequences, FiniteSets, TLC

\* ------------------------------------------------------------------ bounds
\* Most candidate addresses getaddrinfo returns.
MaxCands == 3
\* Most retried (transient) engine results within one call of an operation.
MaxRetry == 2
\* Longest string handed to openvas_server_send.
MaxLen == 3
\* Longest format handed to openvas_server_sendf_xml, counted in characters
\* and conversions; most conversions in it; longest string argument.
MaxFormat == 2
MaxArgs == 1
MaxArgLen == 1

\* ------------------------------------------------------------------ state
VARIABLES
  sigpipe,          \* process-wide disposition of SIGPIPE
  globalInit,       \* gnutls_global_init calls not yet undone by a deinit
  socks,            \* descriptor -> "none" | "open" | "pending" | "connected" | "shutdown" | "closed"
  session,          \* the gnutls session: "none" | "init" | "deinit"
  creds,            \* the certificate credentials: "none" | "alloc" | "freed"
  established,      \* a handshake on the session has completed
  transport,        \* descriptor bound by gnutls_transport_set_ptr (0: none)
  loaded,           \* what the credentials hold: subset of {"key", "trust"}
  certRequest,      \* gnutls_certificate_server_set_request was called
  how,              \* what the caller holds: "none" | "open" | "new" | "failed" | "gone"
  op,               \* the function being executed ("idle": none)
  pc,               \* the position inside it
  ret,              \* its return value once pc = "done"
  original_action,  \* the local original_action (valid once sigaction filled it)
  addresses,        \* openvas_server_open: per candidate, does connect succeed
  address,          \* openvas_server_open: index of the current candidate (Len+1: NULL)
  server_socket,    \* the socket local / parameter of the running function
  interrupted,      \* openvas_server_connect: the interrupted parameter
  newArgs,          \* openvas_server_new: which of its parameters are given
  string,           \* openvas_server_send: what string points at
  left,             \* openvas_server_send: bytes left
  payload,          \* the string openvas_server_send was called with
  wire,             \* the bytes gnutls_record_send accepted, in order
  sigAtCall,        \* disposition of SIGPIPE when the running function was called
  again,            \* the running openvas_server_connect was called after one returned 0
  format,           \* openvas_server_sendf_xml: the format parameter
  fargs,            \* openvas_server_sendf_xml: the arguments after format
  msg,              \* openvas_server_sendf_xml: the local msg
  retrying,         \* the transient result a loop without retry bound got last
  threads,          \* two threads in openvas_server_send: pc and locals of each
  race,             \* what has happened between the threads so far
  trace             \* the calls the running function made, with their results

vars == <<sigpipe, globalInit, socks, session, creds, established, transport,
          loaded, certRequest, how, op, pc, ret, original_action, addresses,
          address, server_socket, interrupted, newArgs, string, left, payload,
          wire, sigAtCall, again, format, fargs, msg, retrying,
          threads, race, trace>>

credVars == <<loaded, certRequest>>
objVars == <<socks, session, creds, established, transport, credVars>>
argVars == <<interrupted, newArgs>>
openVars == <<addresses, address>>
sendVars == <<string, left, payload, wire>>
fmtVars == <<format, fargs, msg>>
thrVars == <<threads, race>>

\* ---------------------------------------------------------------- domains
SockIds == 1..MaxCands
Dispositions == {"SIG_DFL", "SIG_IGN", "handler"}
Bytes == {1, 2}

\* Negative results of the TLS engine the code tells apart, and "any other".
E_AGAIN == "E_AGAIN"
E_INTERRUPTED == "E_INTERRUPTED"
E_REHANDSHAKE == "E_REHANDSHAKE"
E_FATAL == "E_FATAL"
EngineErrors == {E_AGAIN, E_INTERRUPTED, E_REHANDSHAKE, E_FATAL}

Ev(c, r, n) == [call |-> c, res |-> r, n |-> n]

Calls(c) == Cardinality({i \in 1..Len(trace) : trace[i].call = c})
CallsWith(c, R) ==
  Cardinality({i \in 1..Len(trace) : trace[i].call = c /\ trace[i].res \in R})
Has(c, r) == \E i \in 1..Len(trace) : trace[i].call = c /\ trace[i].res = r

SeqsUpTo(S, n) == UNION {[1..k -> S] : k \in 0..n}

\* The parameters and locals of a function that is not running.
NoArgs == [end_type |-> "GNUTLS_CLIENT", ca |-> FALSE, cert |-> FALSE,
           key |-> FALSE]
NoOpenLocals == addresses' = <<>> /\ address' = 1
NoNewArgs == newArgs' = NoArgs
NoSendLocals == string' = <<>> /\ left' = 0 /\ payload' = <<>> /\ wire' = <<>>

\* ---------------------------------------------------------------- threads
Threads == {1, 2}
\* a thread that has not called anything
IdleThread == [pc |-> "idle", original_action |-> "unset", left |-> 0, ret |-> 0]
NoThreads == [t \in Threads |-> IdleThread]
\* overlap: a thread acquired the guard while another held it;
\* unguarded: gnutls_record_send was called while SIGPIPE was not ignored;
\* restoreFailed: a restoring sigaction failed.
NoRace == [overlap |-> FALSE, unguarded |-> FALSE, restoreFailed |-> FALSE]

\* ------------------------------------------------------------------- Init
Init ==
  /\ sigpipe \in Dispositions
  /\ globalInit = 0
  /\ socks = [s \in SockIds |-> "none"]
  /\ session = "none"
  /\ creds = "none"
  /\ established = FALSE
  /\ transport = 0
  /\ how = "none"
  /\ op = "idle"
  /\ pc = "idle"
  /\ ret = 0
  /\ original_action = "unset"
  /\ addresses = <<>>
  /\ address = 1
  /\ server_socket = 0
  /\ interrupted = FALSE
  /\ newArgs = NoArgs
  /\ loaded = {}
  /\ certRequest = FALSE
  /\ string = <<>>
  /\ left = 0
  /\ payload = <<>>
  /\ wire = <<>>
  /\ sigAtCall = sigpipe
  /\ again = FALSE
  /\ format = <<>>
  /\ fargs = <<>>
  /\ msg = <<>>
  /\ retrying = "none"
  /\ threads = NoThreads
  /\ race = NoRace
  /\ trace = <<>>

\* ---------------------------------------------------------------- helpers
\* A function is entered: the caller is idle, the call's record starts.
Enter(f, first) ==
  /\ op = "idle"
  /\ op' = f
  /\ pc' = first
  /\ sigAtCall' = sigpipe
  /\ UNCHANGED <<trace, original_action, ret>>

\* return v;
Return(v) ==
  /\ pc' = "done"
  /\ ret' = v

\* The function has returned: its frame is gone and the caller goes on with
\* what it got.  A constructor that failed leaves the caller nothing to use.
Resume ==
  /\ pc = "done"
  /\ op' = "idle"
  /\ pc' = "idle"
  /\ how' = IF op \in {"open", "new"} /\ ret < 0 THEN "failed" ELSE how
  /\ ret' = 0
  /\ trace' = <<>>
  /\ original_action' = "unset"
  /\ interrupted' = FALSE
  /\ NoOpenLocals /\ NoNewArgs /\ NoSendLocals
  /\ again' = FALSE
  /\ retrying' = "none"
  /\ UNCHANGED <<sigpipe, globalInit, objVars, server_socket, sigAtCall,
                 fmtVars, thrVars>>

\* The caller holds a session that a constructor returned and that it has
\* not yet handed to openvas_server_free or openvas_server_close.
Live == how \in {"open", "new"}

\* Another transient result may be drawn in the running call.
MayRetry(c, R) == CallsWith(c, R) < MaxRetry

\* One more turn of a loop that calls the engine again on a result in R
\* (the `continue' of each loop).  The code counts nothing; the
\* bounded form counts the turns in the trace to keep the state space finite,
\* the unbounded form leaves the trace alone and keeps only the result.
RetryCounted(c, e, R, bounded) ==
  /\ MayRetry(c, R)
  /\ trace' = Append(trace, Ev(c, e, 0))
  /\ retrying' = "none"
Retry(c, e, R, bounded) ==
  IF bounded
    THEN /\ MayRetry(c, R)
         /\ trace' = Append(trace, Ev(c, e, 0))
         /\ retrying' = "none"
    ELSE /\ trace' = trace
         /\ retrying' = e

\* sigemptyset (&new_action.sa_mask), then
\* sigaction (SIGPIPE, &new_action, &original_action): the outcomes, and the
\* effect of the successful one (SIG_IGN installed, the old disposition saved).
AcquireOutcomes == {"sigemptyset_failed", "sigaction_failed", "ok"}
AcquireEvents(r) ==
  IF r = "sigemptyset_failed" THEN <<Ev("sigemptyset", "failed", 0)>>
  ELSE <<Ev("sigemptyset", "ok", 0),
         Ev("sigaction_ignore", IF r = "ok" THEN "ok" ELSE "failed", 0)>>
InstalledDefault == "SIG_DFL"
Installed == "SIG_IGN"
Saved == sigpipe

\* sigaction (SIGPIPE, &original_action, NULL): the disposition afterwards.
RestoredToDefault(ok) == IF ok THEN "SIG_DFL" ELSE sigpipe
Restored(ok) == IF ok THEN original_action ELSE sigpipe
RestoreEvent(ok) == Ev("sigaction_restore", IF ok THEN "ok" ELSE "failed", 0)

\* shutdown (socket, SHUT_RDWR): the socket's state afterwards.
AfterShutdown(s, ok) == IF ok THEN [socks EXCEPT ![s] = "shutdown"] ELSE socks
\* close (socket)
AfterClose(s) == [socks EXCEPT ![s] = "closed"]

OpenSocks == {s \in SockIds : socks[s] \notin {"none", "closed"}}

\* ---------------------------------------------------- openvas_server_open
OpenCall ==
  /\ Enter("open", "o_setup")
  /\ how = "none"
  /\ how' = "open"
  /\ UNCHANGED <<sigpipe, globalInit, again, fmtVars, thrVars, retrying,
                 objVars, openVars,
                 server_socket,
                 argVars, sendVars>>

\* gnutls_global_init ... gnutls_credentials_set, each with its unwinding.
SetupSteps ==
  <<"gnutls_global_init", "allocate_credentials", "gnutls_init",
    "set_default_priority", "credentials_set">>
SetupEvents(f) ==
  [i \in 1..(IF f = 0 THEN 5 ELSE f) |->
     Ev(SetupSteps[i], IF i = f THEN "failed" ELSE "ok", 0)]
OpenSetup ==
  /\ op = "open" /\ pc = "o_setup"
  /\ \E f \in 0..5 :
       /\ trace' = trace \o SetupEvents(f)
       /\ globalInit' = IF f = 1 THEN globalInit ELSE globalInit + 1
       /\ creds' = IF f \in {1, 2} THEN creds
                   ELSE IF f = 0 THEN "alloc" ELSE "freed"
       /\ session' = IF f \in {1, 2, 3} THEN session
                     ELSE IF f = 0 THEN "init" ELSE "deinit"
       /\ IF f = 0 THEN pc' = "o_getaddrinfo" /\ ret' = ret ELSE Return(-1)
  /\ UNCHANGED <<sigpipe, socks, established, transport, credVars, how, op,
                 original_action, openVars, server_socket, argVars,
                 sendVars, sigAtCall, again, fmtVars, thrVars, retrying>>

\* getaddrinfo: failure, or a non-empty list of candidates.
OpenResolve ==
  /\ op = "open" /\ pc = "o_getaddrinfo"
  /\ \/ /\ trace' = Append(trace, Ev("getaddrinfo", "failed", 0))
        /\ session' = "deinit"
        /\ creds' = "freed"
        /\ Return(-1)
        /\ UNCHANGED openVars
     \/ \E k \in 1..MaxCands : \E a \in [1..k -> BOOLEAN] :
          /\ trace' = Append(trace, Ev("getaddrinfo", "ok", k))
          /\ addresses' = a
          /\ address' = 1
          /\ pc' = "o_socket"
          /\ UNCHANGED <<session, creds, ret>>
  /\ UNCHANGED <<sigpipe, globalInit, again, fmtVars, thrVars, retrying,
                 socks, established,
                 transport, credVars, how, op,
                 original_action, server_socket, argVars, sendVars,
                 sigAtCall>>

\* address == NULL
LoopExhausted == address > Len(addresses)

\* The loop test, then socket (PF_INET, SOCK_STREAM, 0).
OpenSocket ==
  /\ op = "open" /\ pc = "o_socket"
  /\ IF LoopExhausted
       THEN /\ pc' = "o_after_loop"
            /\ UNCHANGED <<socks, session, creds, ret, server_socket, trace>>
       ELSE \/ /\ trace' = Append(trace, Ev("socket", "failed", address))
               /\ server_socket' = -1
               /\ session' = "deinit"
               /\ creds' = "freed"
               /\ Return(-1)
               /\ UNCHANGED socks
            \/ /\ trace' = Append(trace, Ev("socket", "ok", address))
               /\ server_socket' = address
               /\ socks' = [socks EXCEPT ![address] = "open"]
               /\ pc' = "o_connect"
               /\ UNCHANGED <<session, creds, ret>>
  /\ UNCHANGED <<sigpipe, globalInit, again, fmtVars, thrVars, retrying,
                 established,
                 transport,
                 credVars, how, op,
                 original_action, openVars, argVars, sendVars, sigAtCall>>

\* The socket of a candidate whose connect failed: close (server_socket).
OpenRefusedLeak(s) == socks
OpenRefused(s) == AfterClose(s)

\* connect (server_socket, address->ai_addr, ...): continue or break.
OpenConnect ==
  /\ op = "open" /\ pc = "o_connect"
  /\ IF addresses[address]
       THEN /\ trace' = Append(trace, Ev("connect", "ok", address))
            /\ socks' = [socks EXCEPT ![server_socket] = "connected"]
            /\ pc' = "o_after_loop"
            /\ UNCHANGED address
       ELSE /\ trace' = trace \o <<Ev("connect", "failed", address),
                                   Ev("close", "ok", server_socket)>>
            /\ socks' = OpenRefused(server_socket)
            /\ address' = address + 1
            /\ pc' = "o_socket"
  /\ UNCHANGED <<sigpipe, globalInit, again, fmtVars, thrVars, retrying,
                 session, creds,
                 established,
                 transport, credVars,
                 how, op, ret, original_action, addresses, server_socket,
                 argVars, sendVars, sigAtCall>>

\* What openvas_server_open returns when no candidate was left: return -1.
OpenExhaustedReturnSocket == server_socket
OpenExhaustedReturn == -1

\* if (address == NULL) after the loop: no candidate could be connected.
AfterLoopFailedNever == FALSE
AfterLoopFailed == LoopExhausted

\* freeaddrinfo; if (address == NULL) fail; gnutls_transport_set_ptr.
OpenAfterLoop ==
  /\ op = "open" /\ pc = "o_after_loop"
  /\ IF AfterLoopFailed
       THEN /\ session' = "deinit"
            /\ creds' = "freed"
            /\ Return(OpenExhaustedReturn)
            /\ UNCHANGED transport
       ELSE /\ transport' = server_socket
            /\ pc' = "o_acquire"
            /\ UNCHANGED <<session, creds, ret>>
  /\ UNCHANGED <<sigpipe, globalInit, again, fmtVars, thrVars, retrying,
                 socks, established,
                 credVars,
                 how, op,
                 original_action, openVars, server_socket, argVars,
                 sendVars, sigAtCall, trace>>

\* sigemptyset and sigaction (SIGPIPE, &new_action, &original_action).
OpenAcquire ==
  /\ op = "open" /\ pc = "o_acquire"
  /\ \E r \in AcquireOutcomes :
       /\ trace' = trace \o AcquireEvents(r)
       /\ IF r = "ok"
            THEN /\ original_action' = Saved
                 /\ sigpipe' = Installed
                 /\ pc' = "o_handshake"
                 /\ UNCHANGED ret
            ELSE /\ Return(-1)
                 /\ UNCHANGED <<sigpipe, original_action>>
  /\ UNCHANGED <<globalInit, again, fmtVars, thrVars, retrying, objVars, how,
                 op, openVars,
                 server_socket,
                 argVars, sendVars, sigAtCall>>

\* The results of gnutls_handshake after which the loop calls it again.
HandshakeRetriedAgainOnly == {E_AGAIN}
HandshakeRetried == {E_AGAIN, E_INTERRUPTED}

\* while (1) { ret = gnutls_handshake (*session); ... }: one iteration.
OpenHandshakeStep(bounded) ==
  /\ op = "open" /\ pc = "o_handshake"
  /\ \/ /\ trace' = Append(trace, Ev("handshake", "OK", 0))
        /\ retrying' = "none"
        /\ established' = TRUE
        /\ pc' = "o_release"
        /\ UNCHANGED <<sigpipe, socks, session, creds, ret>>
     \/ \E e \in HandshakeRetried :
          /\ Retry("handshake", e, HandshakeRetried, bounded)
          /\ UNCHANGED <<sigpipe, socks, session, creds, established, pc, ret>>
     \/ \E e \in EngineErrors \ HandshakeRetried : \E sd, rs \in BOOLEAN :
          /\ trace' = trace \o
               <<Ev("handshake", e, 0),
                 Ev("shutdown", IF sd THEN "ok" ELSE "failed", server_socket),
                 Ev("close", "ok", server_socket),
                 Ev("gnutls_deinit", "ok", 0),
                 Ev("free_credentials", "ok", 0),
                 RestoreEvent(rs)>>
          /\ retrying' = "none"
          /\ socks' = AfterClose(server_socket)
          /\ session' = "deinit"
          /\ creds' = "freed"
          /\ sigpipe' = Restored(rs)
          /\ Return(-1)
          /\ UNCHANGED established
  /\ UNCHANGED <<globalInit, again, fmtVars, thrVars, transport, credVars, how,
                 op,
                 original_action, openVars,
                 server_socket, argVars, sendVars, sigAtCall>>
OpenHandshake == OpenHandshakeStep(TRUE)
OpenHandshakeUnbounded == OpenHandshakeStep(FALSE)

\* if (sigaction (SIGPIPE, &original_action, NULL)) return -1;
\* return server_socket;
OpenRelease ==
  /\ op = "open" /\ pc = "o_release"
  /\ \E rs \in BOOLEAN :
       /\ trace' = Append(trace, RestoreEvent(rs))
       /\ sigpipe' = Restored(rs)
       /\ Return(IF rs THEN server_socket ELSE -1)
  /\ UNCHANGED <<globalInit, again, fmtVars, thrVars, retrying, objVars, how,
                 op,
                 original_action,
                 openVars,
                 server_socket, argVars, sendVars, sigAtCall>>

\* ----------------------------------------------------- openvas_server_new
\* The calls openvas_server_new makes, in order, for the parameters given:
\* the key file is read only when both cert_file and key_file are given, the
\* trust file only when ca_cert_file is given.
NewSteps(a) ==
  <<"gnutls_global_init", "allocate_credentials">>
  \o (IF a.cert /\ a.key THEN <<"set_x509_key_file">> ELSE <<>>)
  \o (IF a.ca THEN <<"set_x509_trust_file">> ELSE <<>>)
  \o <<"gnutls_init", "priority_set_direct", "credentials_set">>

NewCall ==
  /\ Enter("new", "n_run")
  /\ how = "none"
  /\ how' = "new"
  /\ \E e \in {"GNUTLS_CLIENT", "GNUTLS_SERVER"} : \E ca, cert, key \in BOOLEAN :
       newArgs' = [end_type |-> e, ca |-> ca, cert |-> cert, key |-> key]
  /\ UNCHANGED <<sigpipe, globalInit, again, fmtVars, thrVars, retrying,
                 objVars, openVars,
                 server_socket,
                 interrupted, sendVars>>

\* The body of openvas_server_new: f is the call that fails (0: none).  A
\* failure before gnutls_init goes to server_free_fail, one after it to
\* server_fail; the first two return at once.
NewRun ==
  /\ op = "new" /\ pc = "n_run"
  /\ LET steps == NewSteps(newArgs)
         n == Len(steps)
         Done(f, s) == \E i \in 1..(IF f = 0 THEN n ELSE f - 1) : steps[i] = s
     IN \E f \in 0..n :
          LET failed == IF f = 0 THEN "none" ELSE steps[f]
              unwound ==
                (IF Done(f, "gnutls_init") /\ f # 0
                   THEN <<Ev("gnutls_deinit", "ok", 0)>> ELSE <<>>)
                \o (IF Done(f, "allocate_credentials") /\ f # 0
                      THEN <<Ev("free_credentials", "ok", 0)>> ELSE <<>>)
          IN /\ trace' = [i \in 1..(IF f = 0 THEN n ELSE f) |->
                            Ev(steps[i], IF i = f THEN "failed" ELSE "ok", 0)]
                         \o unwound
                         \o (IF f = 0 THEN <<Ev("server_set_request", "ok", 0)>>
                             ELSE <<>>)
             /\ globalInit' = IF failed = "gnutls_global_init"
                                THEN globalInit ELSE globalInit + 1
             /\ creds' = IF f = 0 THEN "alloc"
                         ELSE IF Done(f, "allocate_credentials") THEN "freed"
                         ELSE creds
             /\ session' = IF f = 0 THEN "init"
                           ELSE IF Done(f, "gnutls_init") THEN "deinit"
                           ELSE session
             /\ loaded' = (IF Done(f, "set_x509_key_file") THEN {"key"} ELSE {})
                          \cup (IF Done(f, "set_x509_trust_file")
                                  THEN {"trust"} ELSE {})
             /\ certRequest' = (f = 0)
             /\ Return(IF f = 0 THEN 0 ELSE -1)
  /\ UNCHANGED <<sigpipe, socks, established, transport, how, op,
                 original_action, openVars, server_socket, argVars, sendVars,
                 sigAtCall, again, fmtVars, thrVars, retrying>>

\* ----------------------------- a failed handshake in attach and connect
\* gnutls_handshake returned a code that is not retried: shutdown
\* (server_socket, SHUT_RDWR), its failure only logged, then sigaction
\* (SIGPIPE, &original_action, NULL), then return -1.
HandshakeFailedNoShutdown(e, sd, rs) ==
  <<Ev("handshake", e, 0), RestoreEvent(rs)>>
HandshakeFailed(e, sd, rs) ==
  <<Ev("handshake", e, 0),
    Ev("shutdown", IF sd THEN "ok" ELSE "failed", server_socket),
    RestoreEvent(rs)>>

\* -------------------------------------------------- openvas_server_attach
\* The caller hands over a session from openvas_server_new and a socket that
\* is connected to the peer.
AttachCall ==
  /\ Enter("attach", "a_acquire")
  /\ Live /\ how = "new" /\ session = "init" /\ ~established
  /\ \A s \in SockIds : socks[s] = "none"
  /\ server_socket' = 1
  /\ socks' = [socks EXCEPT ![1] = "connected"]
  /\ UNCHANGED <<sigpipe, globalInit, again, fmtVars, thrVars, retrying,
                 session, creds,
                 established,
                 transport,
                 credVars, how, openVars, argVars, sendVars>>

\* gnutls_transport_set_ptr, sigemptyset, sigaction.
AttachAcquire ==
  /\ op = "attach" /\ pc = "a_acquire"
  /\ transport' = server_socket
  /\ \E r \in AcquireOutcomes :
       /\ trace' = trace \o AcquireEvents(r)
       /\ IF r = "ok"
            THEN /\ original_action' = Saved
                 /\ sigpipe' = Installed
                 /\ pc' = "a_handshake"
                 /\ UNCHANGED ret
            ELSE /\ Return(-1)
                 /\ UNCHANGED <<sigpipe, original_action>>
  /\ UNCHANGED <<globalInit, again, fmtVars, thrVars, retrying, socks,
                 session, creds,
                 established,
                 credVars,
                 how, op, openVars, server_socket, argVars, sendVars,
                 sigAtCall>>

AttachHandshakeStep(bounded) ==
  /\ op = "attach" /\ pc = "a_handshake"
  /\ \/ /\ trace' = Append(trace, Ev("handshake", "OK", 0))
        /\ retrying' = "none"
        /\ established' = TRUE
        /\ pc' = "a_release"
        /\ UNCHANGED <<sigpipe, socks, ret>>
     \/ \E e \in HandshakeRetried :
          /\ Retry("handshake", e, HandshakeRetried, bounded)
          /\ UNCHANGED <<sigpipe, socks, established, pc, ret>>
     \/ \E e \in EngineErrors \ HandshakeRetried : \E sd, rs \in BOOLEAN :
          /\ trace' = trace \o HandshakeFailed(e, sd, rs)
          /\ retrying' = "none"
          /\ socks' = AfterShutdown(server_socket, sd)
          /\ sigpipe' = Restored(rs)
          /\ Return(-1)
          /\ UNCHANGED established
  /\ UNCHANGED <<globalInit, again, fmtVars, thrVars, session, creds, transport,
                 credVars,
                 how, op,
                 original_action, openVars, server_socket, argVars, sendVars,
                 sigAtCall>>
AttachHandshake == AttachHandshakeStep(TRUE)
AttachHandshakeUnbounded == AttachHandshakeStep(FALSE)

AttachRelease ==
  /\ op = "attach" /\ pc = "a_release"
  /\ \E rs \in BOOLEAN :
       /\ trace' = Append(trace, RestoreEvent(rs))
       /\ sigpipe' = Restored(rs)
       /\ Return(IF rs THEN 0 ELSE -1)
  /\ UNCHANGED <<globalInit, again, fmtVars, thrVars, retrying, objVars, how,
                 op,
                 original_action,
                 openVars,
                 server_socket, argVars, sendVars, sigAtCall>>

\* ------------------------------------------------- openvas_server_connect
\* First attempt: the caller made a socket and passes interrupted = 0.
\* Retry: an earlier call returned -2 on this socket, interrupted is set.
ConnectCall ==
  /\ Enter("connect", "c_probe")
  /\ Live /\ how = "new" /\ session = "init" /\ ~established
  /\ \/ /\ \A s \in SockIds : socks[s] = "none"
        /\ interrupted' = FALSE
        /\ server_socket' = 1
        /\ socks' = [socks EXCEPT ![1] = "open"]
     \/ /\ server_socket \in SockIds /\ socks[server_socket] = "pending"
        /\ interrupted' = TRUE
        /\ UNCHANGED <<server_socket, socks>>
  /\ UNCHANGED <<sigpipe, globalInit, again, fmtVars, thrVars, retrying,
                 session, creds,
                 established,
                 transport,
                 credVars, how, openVars, newArgs, sendVars>>

\* Errors of connect / values of SO_ERROR the code tells apart.
EINPROGRESS == "EINPROGRESS"
EOTHER == "EOTHER"

\* What openvas_server_connect returns for a failed connect, by errno, and
\* for a non-zero SO_ERROR: -2 for EINPROGRESS, else -1.
ProbeErrorAlwaysFailed(e) == -1
ProbeError(e) == IF e = EINPROGRESS THEN -2 ELSE -1

\* if (interrupted) getsockopt (SO_ERROR) ... else connect (...), then
\* gnutls_transport_set_ptr.  A socket has a connect error stored only
\* while its connect is pending.
ConnectProbe ==
  /\ op = "connect" /\ pc = "c_probe"
  /\ IF interrupted
       THEN \/ \E why \in {"failed", "weird_length"} :
                 /\ trace' = Append(trace, Ev("getsockopt", why, 0))
                 /\ Return(-1)
                 /\ UNCHANGED <<socks, transport>>
            \/ /\ trace' = Append(trace, Ev("getsockopt", "0", 0))
               /\ socks' = [socks EXCEPT ![server_socket] = "connected"]
               /\ transport' = server_socket
               /\ pc' = "c_acquire"
               /\ UNCHANGED ret
            \/ /\ socks[server_socket] = "pending"
               /\ trace' = Append(trace, Ev("getsockopt", EINPROGRESS, 0))
               /\ Return(ProbeError(EINPROGRESS))
               /\ UNCHANGED <<socks, transport>>
            \/ /\ socks[server_socket] = "pending"
               /\ trace' = Append(trace, Ev("getsockopt", EOTHER, 0))
               /\ socks' = [socks EXCEPT ![server_socket] = "open"]
               /\ Return(ProbeError(EOTHER))
               /\ UNCHANGED transport
       ELSE \/ /\ trace' = Append(trace, Ev("connect", "ok", 0))
               /\ socks' = [socks EXCEPT ![server_socket] = "connected"]
               /\ transport' = server_socket
               /\ pc' = "c_acquire"
               /\ UNCHANGED ret
            \/ /\ trace' = Append(trace, Ev("connect", EINPROGRESS, 0))
               /\ socks' = [socks EXCEPT ![server_socket] = "pending"]
               /\ Return(ProbeError(EINPROGRESS))
               /\ UNCHANGED transport
            \/ /\ trace' = Append(trace, Ev("connect", EOTHER, 0))
               /\ Return(ProbeError(EOTHER))
               /\ UNCHANGED <<socks, transport>>
  /\ UNCHANGED <<sigpipe, globalInit, again, fmtVars, thrVars, retrying,
                 session, creds,
                 established, credVars,
                 how, op, original_action, openVars, server_socket, argVars,
                 sendVars, sigAtCall>>

ConnectAcquire ==
  /\ op = "connect" /\ pc = "c_acquire"
  /\ \E r \in AcquireOutcomes :
       /\ trace' = trace \o AcquireEvents(r)
       /\ IF r = "ok"
            THEN /\ original_action' = Saved
                 /\ sigpipe' = Installed
                 /\ pc' = "c_handshake"
                 /\ UNCHANGED ret
            ELSE /\ Return(-1)
                 /\ UNCHANGED <<sigpipe, original_action>>
  /\ UNCHANGED <<globalInit, again, fmtVars, thrVars, retrying, objVars, how,
                 op, openVars,
                 server_socket,
                 argVars, sendVars, sigAtCall>>

ConnectHandshakeStep(bounded) ==
  /\ op = "connect" /\ pc = "c_handshake"
  /\ \/ /\ trace' = Append(trace, Ev("handshake", "OK", 0))
        /\ retrying' = "none"
        /\ established' = TRUE
        /\ pc' = "c_release"
        /\ UNCHANGED <<sigpipe, socks, ret>>
     \/ \E e \in HandshakeRetried :
          /\ Retry("handshake", e, HandshakeRetried, bounded)
          /\ UNCHANGED <<sigpipe, socks, established, pc, ret>>
     \/ \E e \in EngineErrors \ HandshakeRetried : \E sd, rs \in BOOLEAN :
          /\ trace' = trace \o HandshakeFailed(e, sd, rs)
          /\ retrying' = "none"
          /\ socks' = AfterShutdown(server_socket, sd)
          /\ sigpipe' = Restored(rs)
          /\ Return(-1)
          /\ UNCHANGED established
  /\ UNCHANGED <<globalInit, again, fmtVars, thrVars, session, creds, transport,
                 credVars,
                 how, op,
                 original_action, openVars, server_socket, argVars, sendVars,
                 sigAtCall>>
ConnectHandshake == ConnectHandshakeStep(TRUE)
ConnectHandshakeUnbounded == ConnectHandshakeStep(FALSE)

ConnectRelease ==
  /\ op = "connect" /\ pc = "c_release"
  /\ \E rs \in BOOLEAN :
       /\ trace' = Append(trace, RestoreEvent(rs))
       /\ sigpipe' = Restored(rs)
       /\ Return(IF rs THEN 0 ELSE -1)
  /\ UNCHANGED <<globalInit, again, fmtVars, thrVars, retrying, objVars, how,
                 op,
                 original_action,
                 openVars,
                 server_socket, argVars, sendVars, sigAtCall>>

\* ---------------------------------------------------- openvas_server_send
\* The caller sends on a session whose handshake completed.
SendCall ==
  /\ Enter("send", "s_acquire")
  /\ Live /\ session = "init" /\ established
  /\ \E p \in SeqsUpTo(Bytes, MaxLen) :
       /\ payload' = p
       /\ string' = p
       /\ left' = Len(p)
       /\ wire' = <<>>
  /\ UNCHANGED <<sigpipe, globalInit, again, fmtVars, thrVars, retrying,
                 objVars, how,
                 openVars,
                 server_socket,
                 argVars>>

SendAcquire ==
  /\ op = "send" /\ pc = "s_acquire"
  /\ \E r \in AcquireOutcomes :
       /\ trace' = trace \o AcquireEvents(r)
       /\ IF r = "ok"
            THEN /\ original_action' = Saved
                 /\ sigpipe' = Installed
                 /\ pc' = "s_loop"
                 /\ UNCHANGED ret
            ELSE /\ Return(-1)
                 /\ UNCHANGED <<sigpipe, original_action>>
  /\ UNCHANGED <<globalInit, again, fmtVars, thrVars, retrying, objVars, how,
                 op, openVars,
                 server_socket,
                 argVars, sendVars, sigAtCall>>

\* The negative results of gnutls_record_send after which the loop continues.
SendRetried == {E_INTERRUPTED, E_REHANDSHAKE}

\* string += count;
AdvanceNot(str, count) == str
Advance(str, count) == SubSeq(str, count + 1, Len(str))

\* What Send returns when gnutls_record_send returned 0.
PeerClosedAsError == 0 - 1
PeerClosed == 1

\* One iteration of while (left): gnutls_record_send (*session, string, left).
SendRecordStep(bounded) ==
  /\ op = "send" /\ pc = "s_loop" /\ left # 0
  /\ \/ \E e \in SendRetried :
          /\ Retry("record_send", e, SendRetried, bounded)
          /\ UNCHANGED <<sigpipe, pc, ret, sendVars>>
     \/ \E e \in EngineErrors \ SendRetried : \E rs \in BOOLEAN :
          /\ trace' = trace \o <<Ev("record_send", e, 0), RestoreEvent(rs)>>
          /\ retrying' = "none"
          /\ sigpipe' = Restored(rs)
          /\ Return(-1)
          /\ UNCHANGED sendVars
     \/ \E rs \in BOOLEAN :
          /\ trace' = trace \o <<Ev("record_send", "count", 0), RestoreEvent(rs)>>
          /\ retrying' = "none"
          /\ sigpipe' = Restored(rs)
          /\ Return(PeerClosed)
          /\ UNCHANGED sendVars
     \/ \E count \in 1..left :
          /\ trace' = Append(trace, Ev("record_send", "count", count))
          /\ retrying' = "none"
          /\ wire' = wire \o SubSeq(string, 1, count)
          /\ string' = Advance(string, count)
          /\ left' = left - count
          /\ UNCHANGED <<sigpipe, pc, ret, payload>>
  /\ UNCHANGED <<globalInit, again, fmtVars, thrVars, objVars, how, op,
                 original_action,
                 openVars,
                 server_socket, argVars, sigAtCall>>
SendRecord == SendRecordStep(TRUE)
SendRecordUnbounded == SendRecordStep(FALSE)

\* left is 0: sigaction (SIGPIPE, &original_action, NULL); return 0;
SendDone ==
  /\ op = "send" /\ pc = "s_loop" /\ left = 0
  /\ \E rs \in BOOLEAN :
       /\ trace' = Append(trace, RestoreEvent(rs))
       /\ sigpipe' = Restored(rs)
       /\ Return(0)
  /\ UNCHANGED <<globalInit, again, fmtVars, thrVars, retrying, objVars, how,
                 op,
                 original_action,
                 openVars,
                 server_socket, argVars, sendVars, sigAtCall>>

\* ---------------------------------------------------- openvas_server_free
\* The caller gives back the socket, the session and the credentials of a
\* session made by openvas_server_new.
FreeCall ==
  /\ Enter("free", "f_nonblock")
  /\ Live /\ how = "new"
  /\ server_socket \in SockIds /\ socks[server_socket] # "none"
  /\ how' = "gone"
  /\ UNCHANGED <<sigpipe, globalInit, again, fmtVars, thrVars, retrying,
                 objVars, openVars,
                 server_socket,
                 argVars, sendVars>>

\* fcntl (server_socket, F_SETFL, O_NONBLOCK)
FreeNonblock ==
  /\ op = "free" /\ pc = "f_nonblock"
  /\ \/ /\ trace' = Append(trace, Ev("fcntl", "ok", 0))
        /\ pc' = "f_acquire"
        /\ UNCHANGED ret
     \/ /\ trace' = Append(trace, Ev("fcntl", "failed", 0))
        /\ Return(-1)
  /\ UNCHANGED <<sigpipe, globalInit, again, fmtVars, thrVars, retrying,
                 objVars, how, op,
                 original_action,
                 openVars, server_socket, argVars, sendVars, sigAtCall>>

FreeAcquire ==
  /\ op = "free" /\ pc = "f_acquire"
  /\ \E r \in AcquireOutcomes :
       /\ trace' = trace \o AcquireEvents(r)
       /\ IF r = "ok"
            THEN /\ original_action' = Saved
                 /\ sigpipe' = Installed
                 /\ pc' = "f_bye"
                 /\ UNCHANGED ret
            ELSE /\ Return(-1)
                 /\ UNCHANGED <<sigpipe, original_action>>
  /\ UNCHANGED <<globalInit, again, fmtVars, thrVars, retrying, objVars, how,
                 op, openVars,
                 server_socket,
                 argVars, sendVars, sigAtCall>>

\* The results of gnutls_bye after which the loop calls it again.
ByeRetriedAgainOnly == {E_AGAIN}
ByeRetried == {E_AGAIN, E_INTERRUPTED}

\* One iteration of while (1) { ret = gnutls_bye (session, GNUTLS_SHUT_WR) }.
FreeByeStep(bounded) ==
  /\ op = "free" /\ pc = "f_bye"
  /\ \/ \E e \in ByeRetried :
          /\ Retry("bye", e, ByeRetried, bounded)
          /\ UNCHANGED pc
     \/ \E e \in {"OK"} \cup (EngineErrors \ ByeRetried) :
          /\ trace' = Append(trace, Ev("bye", e, 0))
          /\ retrying' = "none"
          /\ pc' = "f_release"
  /\ UNCHANGED <<sigpipe, globalInit, again, fmtVars, thrVars, objVars, how,
                 op, ret,
                 original_action,
                 openVars, server_socket, argVars, sendVars, sigAtCall>>
FreeBye == FreeByeStep(TRUE)
FreeByeUnbounded == FreeByeStep(FALSE)

\* if (sigaction (SIGPIPE, &original_action, NULL)) return -1;
FreeRelease ==
  /\ op = "free" /\ pc = "f_release"
  /\ \E rs \in BOOLEAN :
       /\ trace' = Append(trace, RestoreEvent(rs))
       /\ sigpipe' = Restored(rs)
       /\ IF rs THEN pc' = "f_shutdown" /\ UNCHANGED ret ELSE Return(-1)
  /\ UNCHANGED <<globalInit, again, fmtVars, thrVars, retrying, objVars, how,
                 op,
                 original_action,
                 openVars,
                 server_socket, argVars, sendVars, sigAtCall>>

ENOTCONN == "ENOTCONN"

\* shutdown (server_socket, SHUT_RDWR): a socket that never was connected
\* cannot be shut down.
FreeShutdown ==
  /\ op = "free" /\ pc = "f_shutdown"
  /\ \/ /\ socks[server_socket] \in {"connected", "shutdown"}
        /\ trace' = Append(trace, Ev("shutdown", "ok", server_socket))
        /\ socks' = AfterShutdown(server_socket, TRUE)
        /\ pc' = "f_close"
        /\ UNCHANGED ret
     \/ /\ trace' = Append(trace, Ev("shutdown", ENOTCONN, server_socket))
        /\ Return(0)
        /\ UNCHANGED socks
     \/ /\ trace' = Append(trace, Ev("shutdown", "failed", server_socket))
        /\ Return(-1)
        /\ UNCHANGED socks
  /\ UNCHANGED <<sigpipe, globalInit, again, fmtVars, thrVars, retrying,
                 session, creds,
                 established,
                 transport,
                 credVars, how, op, original_action, openVars, server_socket,
                 argVars, sendVars, sigAtCall>>

\* close (server_socket): on failure the descriptor may or may not be gone.
FreeClose ==
  /\ op = "free" /\ pc = "f_close"
  /\ \/ /\ trace' = Append(trace, Ev("close", "ok", server_socket))
        /\ socks' = AfterClose(server_socket)
        /\ pc' = "f_deinit"
        /\ UNCHANGED ret
     \/ \E gone \in BOOLEAN :
          /\ trace' = Append(trace, Ev("close", "failed", server_socket))
          /\ socks' = IF gone THEN AfterClose(server_socket) ELSE socks
          /\ Return(-1)
  /\ UNCHANGED <<sigpipe, globalInit, again, fmtVars, thrVars, retrying,
                 session, creds,
                 established,
                 transport,
                 credVars, how, op, original_action, openVars, server_socket,
                 argVars, sendVars, sigAtCall>>

\* The releasing calls that end openvas_server_free, in the order made.
FreeReleasesCredentialsFirst ==
  <<Ev("free_credentials", "ok", 0), Ev("gnutls_deinit", "ok", 0),
    Ev("global_deinit", "ok", 0)>>
FreeReleases ==
  <<Ev("gnutls_deinit", "ok", 0), Ev("free_credentials", "ok", 0),
    Ev("global_deinit", "ok", 0)>>

\* gnutls_deinit; gnutls_certificate_free_credentials; gnutls_global_deinit.
FreeDeinit ==
  /\ op = "free" /\ pc = "f_deinit"
  /\ trace' = trace \o FreeReleases
  /\ session' = "deinit"
  /\ creds' = "freed"
  /\ globalInit' = globalInit - 1
  /\ Return(0)
  /\ UNCHANGED <<sigpipe, socks, established, transport, credVars, how, op,
                 original_action, openVars, server_socket, argVars, sendVars,
                 sigAtCall, again, fmtVars, thrVars, retrying>>

\* --------------------------------------------------- openvas_server_close
\* The caller gives back what openvas_server_open returned.
CloseCall ==
  /\ Enter("close", "k_nonblock")
  /\ Live /\ how = "open"
  /\ how' = "gone"
  /\ UNCHANGED <<sigpipe, globalInit, again, fmtVars, thrVars, retrying,
                 objVars, openVars,
                 server_socket,
                 argVars, sendVars>>

\* fcntl, sigemptyset, sigaction: each failure returns -1.
CloseAcquire ==
  /\ op = "close" /\ pc = "k_nonblock"
  /\ \/ /\ trace' = Append(trace, Ev("fcntl", "failed", 0))
        /\ Return(-1)
        /\ UNCHANGED <<sigpipe, original_action>>
     \/ \E r \in AcquireOutcomes :
          /\ trace' = Append(trace, Ev("fcntl", "ok", 0)) \o AcquireEvents(r)
          /\ IF r = "ok"
               THEN /\ original_action' = Saved
                    /\ sigpipe' = Installed
                    /\ pc' = "k_bye"
                    /\ UNCHANGED ret
               ELSE /\ Return(-1)
                    /\ UNCHANGED <<sigpipe, original_action>>
  /\ UNCHANGED <<globalInit, again, fmtVars, thrVars, retrying, objVars, how,
                 op, openVars,
                 server_socket,
                 argVars, sendVars, sigAtCall>>

\* gnutls_bye (session, GNUTLS_SHUT_RDWR), its result unused, then the
\* closing sigaction, close (socket) and gnutls_global_deinit.
CloseBye ==
  /\ op = "close" /\ pc = "k_bye"
  /\ \E e \in {"OK"} \cup EngineErrors : \E rs \in BOOLEAN :
       /\ sigpipe' = Restored(rs)
       /\ IF rs
            THEN /\ trace' = trace \o <<Ev("bye", e, 0), RestoreEvent(rs),
                                        Ev("close", "ok", server_socket),
                                        Ev("global_deinit", "ok", 0)>>
                 /\ socks' = AfterClose(server_socket)
                 /\ globalInit' = globalInit - 1
                 /\ Return(0)
            ELSE /\ trace' = trace \o <<Ev("bye", e, 0), RestoreEvent(rs)>>
                 /\ Return(-1)
                 /\ UNCHANGED <<socks, globalInit>>
  /\ UNCHANGED <<session, creds, established, transport, credVars, how, op,
                 original_action, openVars, server_socket, argVars, sendVars,
                 sigAtCall, again, fmtVars, thrVars, retrying>>

\* every step but the turns of the five retry loops
NextOutsideLoops ==
  \/ Resume
  \/ OpenCall
  \/ OpenSetup
  \/ OpenResolve
  \/ OpenSocket
  \/ OpenConnect
  \/ OpenAfterLoop
  \/ OpenAcquire
  \/ OpenRelease
  \/ NewCall
  \/ NewRun
  \/ AttachCall
  \/ AttachAcquire
  \/ AttachRelease
  \/ ConnectCall
  \/ ConnectProbe
  \/ ConnectAcquire
  \/ ConnectRelease
  \/ SendCall
  \/ SendAcquire
  \/ SendDone
  \/ FreeCall
  \/ FreeNonblock
  \/ FreeAcquire
  \/ FreeRelease
  \/ FreeShutdown
  \/ FreeClose
  \/ FreeDeinit
  \/ CloseCall
  \/ CloseAcquire
  \/ CloseBye

Next ==
  \/ NextOutsideLoops
  \/ OpenHandshake
  \/ AttachHandshake
  \/ ConnectHandshake
  \/ SendRecord
  \/ FreeBye

Spec == Init /\ [][Next]_vars

\* ------------------------------------------------- loops without a bound
\* The same program with the retry loops as the code has them: no counter, so
\* a loop may turn any number of times.  The thread inside a function keeps
\* running (nothing in the code blocks it but the calls it makes), which is
\* the weak fairness of Running; what the engine answers is left open.
NextUnbounded ==
  \/ NextOutsideLoops
  \/ OpenHandshakeUnbounded
  \/ AttachHandshakeUnbounded
  \/ ConnectHandshakeUnbounded
  \/ SendRecordUnbounded
  \/ FreeByeUnbounded

Running == pc \notin {"idle", "done"} /\ NextUnbounded

SpecUnbounded == Init /\ [][NextUnbounded]_vars /\ WF_vars(Running)

\* ------------------------------------------- callers outside the contract
\* None of the functions checks the state of what it is handed, so a caller
\* can also make the calls below; each then runs the function's code as any
\* other call does.

\* openvas_server_connect is called once more, with interrupted still set,
\* on the socket for which a retry has just returned 0.
ConnectAgainCall ==
  /\ op = "connect" /\ pc = "done" /\ ret = 0 /\ interrupted
  /\ pc' = "c_probe"
  /\ again' = TRUE
  /\ sigAtCall' = sigpipe
  /\ ret' = 0
  /\ trace' = <<>>
  /\ original_action' = "unset"
  /\ UNCHANGED <<sigpipe, globalInit, objVars, how, op, openVars,
                 server_socket, argVars, sendVars, fmtVars, thrVars, retrying>>

\* openvas_server_send on a session that was handed to openvas_server_free
\* or openvas_server_close before.
SendAfterCloseCall ==
  /\ Enter("send", "s_acquire")
  /\ how = "gone"
  /\ \E p \in SeqsUpTo(Bytes, MaxLen) :
       /\ payload' = p
       /\ string' = p
       /\ left' = Len(p)
       /\ wire' = <<>>
  /\ UNCHANGED <<sigpipe, globalInit, again, fmtVars, thrVars, retrying,
                 objVars, how,
                 openVars,
                 server_socket, argVars>>

\* openvas_server_attach with such a session and its old socket.
AttachAfterCloseCall ==
  /\ Enter("attach", "a_acquire")
  /\ how = "gone"
  /\ UNCHANGED <<sigpipe, globalInit, again, fmtVars, thrVars, retrying,
                 objVars, how,
                 openVars,
                 server_socket, argVars, sendVars>>

NextAnyCaller ==
  \/ Next
  \/ ConnectAgainCall
  \/ SendAfterCloseCall
  \/ AttachAfterCloseCall

SpecAnyCaller == Init /\ [][NextAnyCaller]_vars

\* ------------------------------------------- openvas_server_sendf_xml
\* A format is a sequence of characters and %s conversions, a string a
\* sequence of characters.
Slot == "%s"
MarkupChars == {"<", ">", "&", "\"", "'"}
Chars == MarkupChars \cup {"x"}
Slots(f) == Cardinality({i \in 1..Len(f) : f[i] = Slot})

\* What g_markup_escape_text puts in place of one character.
EntityNone(c) == <<c>>
Entity(c) ==
  CASE c = "&" -> <<"&", "a", "m", "p", ";">>
    [] c = "<" -> <<"&", "l", "t", ";">>
    [] c = ">" -> <<"&", "g", "t", ";">>
    [] c = "'" -> <<"&", "a", "p", "o", "s", ";">>
    [] c = "\"" -> <<"&", "q", "u", "o", "t", ";">>
    [] OTHER -> <<c>>

RECURSIVE MarkupEscapeText(_)
MarkupEscapeText(str) ==
  IF str = <<>> THEN <<>>
  ELSE Entity(Head(str)) \o MarkupEscapeText(Tail(str))

\* g_markup_vprintf_escaped (format, args): the format's own characters are
\* copied, each %s is replaced by the escaped text of the next argument.
RECURSIVE MarkupVprintfEscaped(_, _)
MarkupVprintfEscaped(f, a) ==
  IF f = <<>> THEN <<>>
  ELSE IF Head(f) = Slot
         THEN MarkupEscapeText(Head(a)) \o MarkupVprintfEscaped(Tail(f), Tail(a))
         ELSE <<Head(f)>> \o MarkupVprintfEscaped(Tail(f), a)

\* The argument of the documented example: <x>&"y"</x>
ExampleArg == <<"<", "x", ">", "&", "\"", "y", "\"", "<", "/", "x", ">">>

\* openvas_server_sendf_xml is called on a session whose handshake
\* completed, with a format and as many string arguments as it has
\* conversions.
InitXml ==
  /\ sigpipe = "SIG_DFL"
  /\ globalInit = 1
  /\ socks = [s \in SockIds |-> IF s = 1 THEN "connected" ELSE "none"]
  /\ session = "init"
  /\ creds = "alloc"
  /\ established = TRUE
  /\ transport = 1
  /\ loaded = {}
  /\ certRequest = TRUE
  /\ how = "new"
  /\ op = "sendf_xml"
  /\ pc = "x_format"
  /\ ret = 0
  /\ original_action = "unset"
  /\ addresses = <<>>
  /\ address = 1
  /\ server_socket = 1
  /\ interrupted = FALSE
  /\ newArgs = NoArgs
  /\ string = <<>>
  /\ left = 0
  /\ payload = <<>>
  /\ wire = <<>>
  /\ sigAtCall = sigpipe
  /\ again = FALSE
  /\ \/ /\ format \in {f \in SeqsUpTo(Chars \cup {Slot}, MaxFormat) :
                          Slots(f) <= MaxArgs}
        /\ fargs \in [1..Slots(format) -> SeqsUpTo(Chars, MaxArgLen)]
     \/ /\ format \in {<<Slot>>, <<"<", Slot, ">">>}
        /\ fargs = <<ExampleArg>>
  /\ msg = <<>>
  /\ retrying = "none"
  /\ threads = NoThreads
  /\ race = NoRace
  /\ trace = <<>>

\* gchar *msg = g_markup_vprintf_escaped (format, args);
SendfXmlFormat ==
  /\ op = "sendf_xml" /\ pc = "x_format"
  /\ msg' = MarkupVprintfEscaped(format, fargs)
  /\ pc' = "x_send"
  /\ UNCHANGED <<sigpipe, globalInit, again, objVars, how, op, ret,
                 original_action, openVars, server_socket, argVars, sendVars,
                 sigAtCall, format, fargs, retrying,
                 thrVars, trace>>

\* int ret = openvas_server_send (session, msg); g_free (msg); return ret;
\* The call of openvas_server_send taken as one step: the guard cannot be
\* acquired, or the engine accepts the first k characters of msg and the
\* call returns 0 when that is all of msg and 1 or -1 when it is not; the
\* result of the restoring sigaction is not looked at.
SendfXmlSend ==
  /\ op = "sendf_xml" /\ pc = "x_send"
  /\ payload' = msg
  /\ \/ \E r \in AcquireOutcomes \ {"ok"} :
          /\ trace' = AcquireEvents(r)
          /\ wire' = <<>>
          /\ Return(-1)
          /\ UNCHANGED sigpipe
     \/ \E k \in 0..Len(msg) : \E rs \in BOOLEAN :
          /\ trace' = AcquireEvents("ok") \o <<RestoreEvent(rs)>>
          /\ wire' = SubSeq(msg, 1, k)
          /\ sigpipe' = IF rs THEN Saved ELSE Installed
          /\ IF k = Len(msg) THEN Return(0)
             ELSE \E v \in {PeerClosed, -1} : Return(v)
  /\ string' = SubSeq(msg, Len(wire') + 1, Len(msg))
  /\ left' = Len(msg) - Len(wire')
  /\ UNCHANGED <<globalInit, again, objVars, how, op, original_action,
                 openVars, server_socket, argVars, sigAtCall, fmtVars, thrVars, retrying>>

NextXml ==
  \/ SendfXmlFormat
  \/ SendfXmlSend

SpecXml == InitXml /\ [][NextXml]_vars

\* ------------------------------- openvas_server_send called by two threads
\* Each thread calls openvas_server_send once, each on an established session
\* of its own; the SIGPIPE disposition is the one thing they share.  A step
\* is one system or library call; sigAtCall stays the disposition before
\* either thread started.
Other(t) == CHOOSE u \in Threads : u # t

\* thread t is between its acquiring and its restoring sigaction
Inside(t) == threads[t].pc = "s_loop"

\* the threads' steps leave the single caller's state alone
ThreadFrame ==
  UNCHANGED <<globalInit, objVars, how, op, pc, ret, original_action,
              openVars, server_socket, argVars, sendVars, sigAtCall,
              again, fmtVars, retrying, trace>>

ThreadSendCall(t) ==
  /\ threads[t].pc = "idle"
  /\ \E n \in 0..MaxLen :
       threads' = [threads EXCEPT ![t].pc = "s_acquire", ![t].left = n]
  /\ UNCHANGED <<sigpipe, race>>
  /\ ThreadFrame

\* sigemptyset, sigaction (SIGPIPE, &new_action, &original_action)
ThreadSendAcquire(t) ==
  /\ threads[t].pc = "s_acquire"
  /\ \E r \in AcquireOutcomes :
       IF r = "ok"
         THEN /\ threads' = [threads EXCEPT ![t].original_action = Saved,
                                            ![t].pc = "s_loop"]
              /\ sigpipe' = Installed
              /\ race' = [race EXCEPT !.overlap = @ \/ Inside(Other(t))]
         ELSE /\ threads' = [threads EXCEPT ![t].pc = "done", ![t].ret = -1]
              /\ UNCHANGED <<sigpipe, race>>
  /\ ThreadFrame

\* sigaction (SIGPIPE, &original_action, NULL) of thread t
ThreadRestoredToDefault(t, ok) == IF ok THEN "SIG_DFL" ELSE sigpipe
ThreadRestored(t, ok) == IF ok THEN threads[t].original_action ELSE sigpipe

\* thread t restores and returns v
ThreadReturn(t, v, ok, unguarded) ==
  /\ sigpipe' = ThreadRestored(t, ok)
  /\ threads' = [threads EXCEPT ![t].pc = "done", ![t].ret = v]
  /\ race' = [race EXCEPT !.restoreFailed = @ \/ ~ok,
                          !.unguarded = @ \/ unguarded]

\* one turn of the loop: gnutls_record_send and what follows its result
ThreadSendRecord(t) ==
  /\ threads[t].pc = "s_loop" /\ threads[t].left # 0
  /\ LET unguarded == sigpipe # "SIG_IGN" IN
       \/ /\ race' = [race EXCEPT !.unguarded = @ \/ unguarded]
          /\ UNCHANGED <<sigpipe, threads>>
       \/ \E rs \in BOOLEAN : ThreadReturn(t, -1, rs, unguarded)
       \/ \E rs \in BOOLEAN : ThreadReturn(t, PeerClosed, rs, unguarded)
       \/ \E count \in 1..threads[t].left :
            /\ threads' = [threads EXCEPT ![t].left = @ - count]
            /\ race' = [race EXCEPT !.unguarded = @ \/ unguarded]
            /\ UNCHANGED sigpipe
  /\ ThreadFrame

ThreadSendDone(t) ==
  /\ threads[t].pc = "s_loop" /\ threads[t].left = 0
  /\ \E rs \in BOOLEAN : ThreadReturn(t, 0, rs, FALSE)
  /\ ThreadFrame

NextThreads ==
  \E t \in Threads :
    \/ ThreadSendCall(t)
    \/ ThreadSendAcquire(t)
    \/ ThreadSendRecord(t)
    \/ ThreadSendDone(t)

SpecThreads == Init /\ [][NextThreads]_vars

\* ================================================================ claims
HandshakeOps == {"open", "connect", "attach"}

\* ---- openvas_server_open: the connect loop
SomeAccepts == \E i \in DOMAIN addresses : addresses[i]
FirstAccepting ==
  CHOOSE i \in DOMAIN addresses :
    addresses[i] /\ \A j \in 1..(i - 1) : ~addresses[j]

\* C1: in openvas_server_open, whenever some candidate accepts, the socket
\* the loop ends with is connected to the first accepting candidate in list
\* order, the sockets of all earlier candidates are closed and exactly one
\* socket is open; no socket is ever connected to a later candidate.
C1_FirstAcceptingConnected ==
  (op = "open" /\ SomeAccepts) =>
     /\ \A s \in SockIds : socks[s] = "connected" => s = FirstAccepting
     /\ pc = "o_after_loop" =>
          /\ address = FirstAccepting
          /\ server_socket = address
          /\ socks[address] = "connected"
          /\ \A j \in 1..(address - 1) : socks[j] = "closed"
          /\ OpenSocks = {address}
          /\ Cardinality(OpenSocks) = 1

\* C1 witness: the loop ended on the second of three candidates after the
\* first refused.
C1_Witness ==
  /\ op = "open" /\ pc = "o_after_loop"
  /\ Len(addresses) = 3
  /\ ~addresses[1] /\ addresses[2] /\ addresses[3]
  /\ socks[1] = "closed" /\ socks[2] = "connected"

\* C2: when every candidate refuses the connection, openvas_server_open
\* returns -1 and none of the sockets it opened is still open.
C2_AllRefusedNoSocket ==
  (op = "open" /\ pc = "done" /\ addresses # <<>> /\ ~SomeAccepts) =>
     /\ ret = -1
     /\ OpenSocks = {}

\* C2 witness: three candidates were tried, all refused, and Connect returned.
C2_Witness ==
  /\ op = "open" /\ pc = "done"
  /\ Len(addresses) = 3 /\ ~SomeAccepts
  /\ CallsWith("connect", {"failed"}) = 3
  /\ CallsWith("socket", {"ok"}) = 3

\* C3: on every failing return of openvas_server_open the open socket, the
\* TLS session and the credentials allocated so far have been released.
C3_FailureReleasesAll ==
  (op = "open" /\ pc = "done" /\ ret < 0) =>
     /\ OpenSocks = {}
     /\ session # "init"
     /\ creds # "alloc"

\* ---- the SIGPIPE guard
GuardAcquired == Has("sigaction_ignore", "ok")
GuardHeld == GuardAcquired /\ Calls("sigaction_restore") = 0

\* C4 as claimed: at every return taken after the guard was acquired the
\* SIGPIPE disposition equals the one in force when the operation was called.
C4_DispositionRestoredAtReturn ==
  (pc = "done" /\ GuardAcquired) => sigpipe = sigAtCall

\* C4 as amended: acquire and release are paired on every path -- at most one
\* acquiring and one restoring sigaction per call, the restoring one only
\* after a successful acquire, no return while the guard is held, the saved
\* disposition is the one at the call -- and at every return taken after the
\* guard was acquired the disposition equals the one at the call whenever
\* the restoring sigaction succeeded; when it failed SIGPIPE stays ignored.
C4_GuardPaired ==
  /\ Calls("sigaction_ignore") <= 1
  /\ Calls("sigaction_restore") <= 1
  /\ Calls("sigaction_restore") = 1 => GuardAcquired
  /\ GuardHeld => /\ pc # "done"
                  /\ sigpipe = "SIG_IGN"
                  /\ original_action = sigAtCall
  /\ (pc = "done" /\ GuardAcquired) =>
       /\ Calls("sigaction_restore") = 1
       /\ \E i, j \in 1..Len(trace) :
            /\ i < j
            /\ trace[i].call = "sigaction_ignore"
            /\ trace[j].call = "sigaction_restore"
       /\ Has("sigaction_restore", "ok") => sigpipe = sigAtCall
       /\ Has("sigaction_restore", "failed") => sigpipe = "SIG_IGN"

\* C4 witness: a guarded operation returned a failure with the caller's own
\* handler back in place.
C4_Witness ==
  /\ pc = "done" /\ GuardAcquired /\ ret = -1
  /\ Has("sigaction_restore", "ok")
  /\ sigAtCall = "handler" /\ sigpipe = "handler"

\* ---- the handshake loop
TransientHandshake == {E_AGAIN, E_INTERRUPTED}
HandshakePcs == {"o_handshake", "c_handshake", "a_handshake"}
OnlyTransientSoFar ==
  /\ Calls("handshake") > 0
  /\ Calls("handshake") = CallsWith("handshake", TransientHandshake)

\* C5 as claimed: after k transient results and then a non-negative one the
\* handshake step was invoked exactly k+1 times and the operation returns
\* success.
C5_HandshakeRetriesThenSuccess ==
  (op \in HandshakeOps /\ pc = "done" /\ Has("handshake", "OK")) =>
     /\ Calls("handshake") = CallsWith("handshake", TransientHandshake) + 1
     /\ ret >= 0

\* C5 as amended: while the handshake step has returned only again or
\* interrupted the operation is about to invoke it again; after k such
\* results and then a non-negative one the step was invoked exactly k+1
\* times, and the operation returns success (the socket from Connect, 0 from
\* the others) if the restoring sigaction that follows the loop succeeds and
\* -1 if that sigaction fails.
C5_HandshakeRetriesThenRelease ==
  /\ (op \in HandshakeOps /\ OnlyTransientSoFar) => pc \in HandshakePcs
  /\ (op \in HandshakeOps /\ Has("handshake", "OK")) =>
       /\ Calls("handshake") = CallsWith("handshake", TransientHandshake) + 1
       /\ pc = "done" =>
            /\ Has("sigaction_restore", "ok") =>
                 ret = IF op = "open" THEN server_socket ELSE 0
            /\ Has("sigaction_restore", "failed") => ret = -1
            /\ ret >= 0 <=> Has("sigaction_restore", "ok")

\* C5 witness: two transient results, then success, three steps, and the
\* operation returned success.
C5_Witness ==
  /\ op \in HandshakeOps /\ pc = "done" /\ ret >= 0
  /\ Has("handshake", E_AGAIN) /\ Has("handshake", E_INTERRUPTED)
  /\ Has("handshake", "OK")
  /\ Calls("handshake") = 3

\* ---- openvas_server_send
IsSend(e) == e.call = "record_send"
Accepted(e) == e.call = "record_send" /\ e.res = "count" /\ e.n > 0
ZeroSend(e) == e.call = "record_send" /\ e.res = "count" /\ e.n = 0

\* C6: whatever part of the remaining bytes the engine accepts per call, and
\* whatever interrupted or rehandshake results come in between, the bytes
\* the engine accepted are at every moment a prefix of the payload, what is
\* left is the rest of it, and when Send returns 0 they are the payload
\* exactly.
C6_WireIsPayload ==
  op = "send" =>
     /\ wire \o string = payload
     /\ left = Len(string)
     /\ (pc = "done" /\ ret = 0) => wire = payload

\* C6 witness: a payload of the greatest length holding two different bytes
\* went out one byte per call, with an interrupted and a rehandshake result
\* in between.
C6_Witness ==
  /\ op = "send" /\ pc = "done" /\ ret = 0
  /\ Len(payload) = MaxLen
  /\ payload[1] # payload[2]
  /\ Len(SelectSeq(trace, Accepted)) = MaxLen
  /\ Has("record_send", E_INTERRUPTED)
  /\ Has("record_send", E_REHANDSHAKE)

\* C7: once gnutls_record_send has returned 0, first call or not, Send
\* returns 1, not -1, and makes no further gnutls_record_send call.
C7_ZeroMeansPeerClosed ==
  \A i \in 1..Len(trace) :
    (op = "send" /\ ZeroSend(trace[i])) =>
       /\ pc = "done"
       /\ ret = 1
       /\ \A j \in (i + 1)..Len(trace) : ~IsSend(trace[j])
       /\ wire \o string = payload

\* C7 witness: the engine took one byte, then returned 0 with bytes left.
C7_Witness ==
  /\ op = "send" /\ pc = "done" /\ ret = 1
  /\ Len(SelectSeq(trace, Accepted)) = 1
  /\ Len(SelectSeq(trace, ZeroSend)) = 1
  /\ left > 0 /\ Len(wire) = 1

\* ---- transient engine results
EngineCalls == {"handshake", "record_send", "bye"}
LoopPc(c) ==
  IF c = "handshake" THEN HandshakePcs
  ELSE IF c = "record_send" THEN {"s_loop"} ELSE {"f_bye"}
RetryOps == {"open", "connect", "attach", "send", "free"}
\* The call is made again right after the i-th entry of the trace.
CalledAgain(i) ==
  IF i < Len(trace) THEN trace[i + 1].call = trace[i].call
  ELSE pc \in LoopPc(trace[i].call)

\* C8 as claimed: in Handshake, Send and Close each of interrupted, again
\* and rehandshake-needed leads to another call of the same engine
\* operation.
C8_EveryTransientRetried ==
  \A i \in 1..Len(trace) :
    (/\ op \in RetryOps
     /\ trace[i].call \in EngineCalls
     /\ trace[i].res \in {E_INTERRUPTED, E_AGAIN, E_REHANDSHAKE})
    => CalledAgain(i)

\* C8 as amended: the handshake loops call again on again and interrupted,
\* Send on interrupted and rehandshake-needed, the goodbye loop of
\* openvas_server_free on again and interrupted, and none of these results
\* is surfaced; rehandshake-needed from the handshake and again from
\* gnutls_record_send end the operation with -1 and no further engine call;
\* rehandshake-needed from gnutls_bye ends the goodbye loop without an
\* error result.
RetriedBy(c) ==
  IF c = "record_send" THEN {E_INTERRUPTED, E_REHANDSHAKE}
  ELSE {E_AGAIN, E_INTERRUPTED}
C8_RetriedPerOperation ==
  \A i \in 1..Len(trace) :
    (op \in RetryOps /\ trace[i].call \in EngineCalls) =>
       /\ trace[i].res \in RetriedBy(trace[i].call) => CalledAgain(i)
       /\ (/\ trace[i].res \in EngineErrors \ RetriedBy(trace[i].call)
           /\ trace[i].call \in {"handshake", "record_send"}) =>
            /\ pc = "done" /\ ret = -1
            /\ \A j \in (i + 1)..Len(trace) : trace[j].call \notin EngineCalls
       /\ (/\ trace[i].res \in EngineErrors \ RetriedBy(trace[i].call)
           /\ trace[i].call = "bye") =>
            /\ ~CalledAgain(i)
            /\ i = Len(trace) => pc = "f_release" /\ ret = 0
            /\ \A j \in (i + 1)..Len(trace) : trace[j].call \notin EngineCalls

\* C8 witness: Send went on after interrupted and rehandshake-needed and
\* then returned -1 on again.
C8_Witness ==
  /\ op = "send" /\ pc = "done" /\ ret = -1
  /\ Has("record_send", E_INTERRUPTED)
  /\ Has("record_send", E_REHANDSHAKE)
  /\ Has("record_send", E_AGAIN)

\* ---- openvas_server_free
ByeFailed == \E e \in EngineErrors \ {E_AGAIN, E_INTERRUPTED} : Has("bye", e)

\* C9: when gnutls_bye fails with a non-transient code, openvas_server_free
\* still shuts the socket down, closes it, releases the session and the
\* credentials, and returns -1 only if the shutdown or the close failed.
C9_ByeFailureStillTearsDown ==
  (op = "free" /\ pc = "done" /\ ByeFailed) =>
     /\ Calls("shutdown") = 1
     /\ Calls("close") = 1
     /\ session = "deinit"
     /\ creds = "freed"
     /\ ret = -1 => Has("shutdown", "failed") \/ Has("close", "failed")

\* C10: every call of openvas_server_free closes the socket descriptor and
\* releases the TLS session and the credentials before it returns, whatever
\* the outcome of fcntl and shutdown.
C10_FreeAlwaysReleases ==
  (op = "free" /\ pc = "done") =>
     /\ Calls("close") = 1
     /\ session = "deinit"
     /\ creds = "freed"

\* C11: openvas_server_free returns -1 only if shutdown failed with an error
\* other than not-connected or close failed; a failure of fcntl, of the
\* acquiring or the restoring sigaction or of gnutls_bye leaves the result 0.
C11_ErrorOnlyFromShutdownOrClose ==
  (op = "free" /\ pc = "done") =>
     (ret = -1 <=> (Has("shutdown", "failed") \/ Has("close", "failed")))

\* ---- openvas_server_connect
ProbeCalls == Calls("connect") + Calls("getsockopt")

\* C12: openvas_server_connect makes one probe per call -- connect on a first
\* attempt, one read of SO_ERROR and no connect on a retry.  A connect
\* failing with EINPROGRESS returns -2 and any other connect failure -1; a
\* stored error of zero makes the socket connected and the call goes on from
\* there, a stored EINPROGRESS returns -2 and any other stored error -1.
C12_ProbeOutcomes ==
  op = "connect" =>
     /\ ProbeCalls = IF pc = "c_probe" THEN 0 ELSE 1
     /\ interrupted => Calls("connect") = 0
     /\ ~interrupted => Calls("getsockopt") = 0
     /\ \A c \in {"connect", "getsockopt"} :
          /\ Has(c, EINPROGRESS) => pc = "done" /\ ret = -2 /\ Len(trace) = 1
          /\ Has(c, EOTHER) => pc = "done" /\ ret = -1 /\ Len(trace) = 1
     /\ (Has("getsockopt", "0") /\ Len(trace) = 1) =>
          /\ pc = "c_acquire"
          /\ socks[server_socket] = "connected"
          /\ transport = server_socket
     /\ (pc = "done" /\ ret = -2) =>
          Has("connect", EINPROGRESS) \/ Has("getsockopt", EINPROGRESS)

\* C12 witness: a retry read a stored error of zero and went on to complete
\* the handshake.
C12_Witness ==
  /\ op = "connect" /\ pc = "done" /\ ret = 0
  /\ interrupted
  /\ Has("getsockopt", "0") /\ Calls("getsockopt") = 1
  /\ Has("handshake", "OK")

\* ---- calls outside the documented use
\* C13: once a retry of openvas_server_connect has returned 0 for a socket,
\* a further retry call on that socket does not find it connected again,
\* does not return 0 and makes no gnutls_handshake call.
C13_ConnectedOnce ==
  again =>
     /\ ~Has("getsockopt", "0")
     /\ Calls("handshake") = 0
     /\ pc = "done" => ret # 0

\* C14: a call of openvas_server_send or openvas_server_attach on a session
\* that was closed before returns an error, makes no gnutls call, no
\* sigaction call and no socket call, and leaves the SIGPIPE disposition as
\* it was.
C14_ClosedRejects ==
  (how = "gone" /\ op \in {"send", "attach"}) =>
     /\ \A c \in EngineCalls \cup {"sigaction_ignore", "shutdown"} :
          Calls(c) = 0
     /\ sigpipe = sigAtCall
     /\ pc = "done" => ret < 0 /\ trace = <<>>

\* ---- openvas_server_new
\* C15: openvas_server_new called with a certificate file and no key file,
\* or a key file and no certificate file, returns -1; it returns 0 without
\* having loaded a certificate and key only when both are absent.
C15_CertAndKeyTogether ==
  (op = "new" /\ pc = "done") =>
     /\ newArgs.cert # newArgs.key => ret = -1
     /\ (ret = 0 /\ "key" \notin loaded) => ~newArgs.cert /\ ~newArgs.key

\* C16: on every failing return of openvas_server_new what the call had
\* allocated is released: the credentials are not left allocated, the
\* session is not left initialised, and a gnutls_global_init that succeeded
\* has been undone by a gnutls_global_deinit.
C16_NewFailureReleasesAll ==
  (op = "new" /\ pc = "done" /\ ret < 0) =>
     /\ creds # "alloc"
     /\ session # "init"
     /\ CallsWith("gnutls_global_init", {"ok"}) = Calls("global_deinit")

\* ---- the handshake starts on a connected socket only
ProbeFailed ==
  \E i \in 1..Len(trace) :
    /\ trace[i].call \in {"connect", "getsockopt"}
    /\ trace[i].res \notin {"ok", "0"}
ProbeSucceededBefore(i) ==
  \E j \in 1..(i - 1) :
    \/ trace[j].call = "connect" /\ trace[j].res = "ok"
    \/ trace[j].call = "getsockopt" /\ trace[j].res = "0"

\* C17: in openvas_server_connect and openvas_server_open gnutls_handshake
\* is called only on a socket that is connected and bound to the session:
\* every handshake call comes after a successful connect (or a stored error
\* of zero) of the same call, a call of openvas_server_connect that returns
\* -2 or whose connect step failed makes none, and openvas_server_open
\* makes none when every candidate refused.
C17_NoHandshakeBeforeConnected ==
  op \in {"open", "connect"} =>
     /\ pc \in HandshakePcs =>
          /\ socks[server_socket] = "connected"
          /\ transport = server_socket
     /\ \A i \in 1..Len(trace) :
          trace[i].call = "handshake" => ProbeSucceededBefore(i)
     /\ (op = "connect" /\ pc = "done" /\ ret = -2) => Calls("handshake") = 0
     /\ (op = "connect" /\ ProbeFailed) => Calls("handshake") = 0
     /\ (op = "open" /\ addresses # <<>> /\ ~SomeAccepts) =>
          Calls("handshake") = 0

\* C17 witness: a retry of openvas_server_connect found the socket connected
\* and is in its handshake loop after a first, transient, handshake result.
C17_Witness ==
  /\ op = "connect" /\ interrupted /\ pc = "c_handshake"
  /\ Has("getsockopt", "0")
  /\ Has("handshake", E_AGAIN)
  /\ socks[server_socket] = "connected"

\* ---- engine calls and SIGPIPE
\* C18: every gnutls_handshake, gnutls_record_send and gnutls_bye call, in
\* every function and every iteration of its loop, is made while SIGPIPE is
\* ignored: after the acquiring sigaction of the same call succeeded and
\* before its restoring sigaction.
C18_EngineCallsUnderIgnore ==
  [][\A i \in (Len(trace) + 1)..Len(trace') :
       trace'[i].call \in EngineCalls =>
          /\ sigpipe = "SIG_IGN"
          /\ GuardHeld
          /\ \A j \in (Len(trace) + 1)..(i - 1) :
               trace'[j].call # "sigaction_restore"]_vars

\* C18 witness: openvas_server_free, called with SIGPIPE at its default, is
\* in its goodbye loop after two gnutls_bye calls.
C18_Witness ==
  /\ op = "free" /\ pc = "f_bye"
  /\ Calls("bye") = 2
  /\ sigAtCall = "SIG_DFL" /\ sigpipe = "SIG_IGN"

\* ---- a handshake that fails
FatalHandshake(e) ==
  e.call = "handshake" /\ e.res \in EngineErrors \ {E_AGAIN, E_INTERRUPTED}

\* C20: when gnutls_handshake returns a negative code other than again and
\* interrupted, the function calls shutdown on the socket exactly once,
\* right after it, then restores the SIGPIPE disposition as its last call,
\* and returns -1 whether or not the shutdown succeeded; it makes no
\* further gnutls_handshake call.
C20_FatalHandshakeShutsDownOnce ==
  \A i \in 1..Len(trace) :
    (op \in HandshakeOps /\ FatalHandshake(trace[i])) =>
       /\ pc = "done" /\ ret = -1
       /\ Calls("shutdown") = 1
       /\ i < Len(trace) /\ trace[i + 1].call = "shutdown"
       /\ Calls("sigaction_restore") = 1
       /\ trace[Len(trace)].call = "sigaction_restore"
       /\ \A j \in (i + 1)..Len(trace) : trace[j].call # "handshake"

\* C20 witness: openvas_server_attach got a transient and then a fatal
\* handshake result, its shutdown failed, the disposition was restored.
C20_Witness ==
  /\ op = "attach" /\ pc = "done" /\ ret = -1
  /\ Has("handshake", E_AGAIN) /\ Has("handshake", E_FATAL)
  /\ Has("shutdown", "failed")
  /\ Has("sigaction_restore", "ok")

\* ---- openvas_server_sendf_xml
\* The markup entity that stands for a character.
MarkupEntity(c) ==
  <<"&">>
  \o (CASE c = "<" -> <<"l", "t">>
        [] c = ">" -> <<"g", "t">>
        [] c = "&" -> <<"a", "m", "p">>
        [] c = "\"" -> <<"q", "u", "o", "t">>
        [] c = "'" -> <<"a", "p", "o", "s">>)
  \o <<";">>

\* e is the string a with every <, >, &, " and ' replaced by its entity.
RECURSIVE IsEscapeOf(_, _)
IsEscapeOf(e, a) ==
  IF a = <<>> THEN e = <<>>
  ELSE LET w == IF Head(a) \in MarkupChars THEN MarkupEntity(Head(a))
                ELSE <<Head(a)>>
       IN /\ Len(e) >= Len(w)
          /\ SubSeq(e, 1, Len(w)) = w
          /\ IsEscapeOf(SubSeq(e, Len(w) + 1, Len(e)), Tail(a))

\* w is the format f with its own characters as written and, in place of
\* each conversion, the escaped text of the next argument of a.
RECURSIVE Embeds(_, _, _)
Embeds(w, f, a) ==
  IF f = <<>> THEN w = <<>>
  ELSE IF Head(f) = Slot
         THEN \E k \in 0..Len(w) :
                /\ IsEscapeOf(SubSeq(w, 1, k), Head(a))
                /\ Embeds(SubSeq(w, k + 1, Len(w)), Tail(f), Tail(a))
         ELSE /\ w # <<>>
              /\ Head(w) = Head(f)
              /\ Embeds(Tail(w), Tail(f), a)

\* &lt;x&gt;&amp;&quot;y&quot;&lt;/x&gt;
ExampleSent ==
  <<"&", "l", "t", ";", "x", "&", "g", "t", ";", "&", "a", "m", "p", ";",
    "&", "q", "u", "o", "t", ";", "y", "&", "q", "u", "o", "t", ";",
    "&", "l", "t", ";", "/", "x", "&", "g", "t", ";">>

\* C19: the string openvas_server_sendf_xml hands to openvas_server_send,
\* and so what has gone out when it returns 0, is the format with each
\* argument escaped -- every <, >, &, " and ' of an argument replaced by its
\* entity -- and the format's own characters as written; the argument
\* <x>&"y"</x> goes out as &lt;x&gt;&amp;&quot;y&quot;&lt;/x&gt;.  When the
\* call fails, what has gone out is the beginning of that string.
C19_ArgumentsEscapedTemplateKept ==
  op = "sendf_xml" =>
     /\ pc # "x_format" => Embeds(msg, format, fargs)
     /\ pc = "done" =>
          /\ payload = msg
          /\ Len(wire) <= Len(msg) /\ wire = SubSeq(msg, 1, Len(wire))
          /\ ret = 0 => wire = msg
          /\ (ret = 0 /\ format = <<Slot>> /\ fargs = <<ExampleArg>>) =>
               wire = ExampleSent

\* C19 witness: the documented argument went out between a literal < and a
\* literal > of the format, which were sent as written.
C19_Witness ==
  /\ op = "sendf_xml" /\ pc = "done" /\ ret = 0
  /\ format = <<"<", Slot, ">">>
  /\ fargs = <<ExampleArg>>
  /\ wire = <<"<">> \o ExampleSent \o <<">">>

\* ---- the order of the steps of openvas_server_free
\* The place of a call in the order: non-blocking switch, guard acquire,
\* goodbye loop, guard release, shutdown, close, session, credentials.
StepRank(c) ==
  CASE c = "fcntl" -> 1
    [] c \in {"sigemptyset", "sigaction_ignore"} -> 2
    [] c = "bye" -> 3
    [] c = "sigaction_restore" -> 4
    [] c = "shutdown" -> 5
    [] c = "close" -> 6
    [] c = "gnutls_deinit" -> 7
    [] c = "free_credentials" -> 8
    [] OTHER -> 9

\* C21: in every run of openvas_server_free the calls made occur in the
\* order fcntl, acquiring sigaction, gnutls_bye loop, restoring sigaction,
\* shutdown, close, gnutls_deinit, gnutls_certificate_free_credentials; no
\* call comes before one listed earlier, every step but the goodbye is made
\* at most once, the session is released only after the socket was closed
\* and the credentials only after the session.
C21_FreeStepsInOrder ==
  op = "free" =>
     /\ \A i, j \in 1..Len(trace) :
          i < j => StepRank(trace[i].call) <= StepRank(trace[j].call)
     /\ \A c \in {"fcntl", "sigaction_ignore", "sigaction_restore",
                   "shutdown", "close", "gnutls_deinit",
                   "free_credentials"} : Calls(c) <= 1
     /\ session = "deinit" =>
          Has("close", "ok") /\ socks[server_socket] = "closed"
     /\ creds = "freed" => session = "deinit"
     /\ Calls("free_credentials") = 1 => Calls("gnutls_deinit") = 1

\* C21 witness: a run of openvas_server_free that made every step, the
\* goodbye twice, and returned 0.
C21_Witness ==
  /\ op = "free" /\ pc = "done" /\ ret = 0
  /\ Has("fcntl", "ok") /\ Has("sigaction_ignore", "ok")
  /\ Has("bye", E_AGAIN) /\ Calls("bye") = 2
  /\ Has("sigaction_restore", "ok")
  /\ Has("shutdown", "ok") /\ Has("close", "ok")
  /\ Calls("gnutls_deinit") = 1 /\ Calls("free_credentials") = 1
  /\ session = "deinit" /\ creds = "freed"


\* ---- the retry loops have no bound

\* the running function is about to call the engine in one of its retry loops
InLoop ==
  \/ pc \in {"o_handshake", "a_handshake", "c_handshake", "f_bye"}
  \/ pc = "s_loop" /\ left # 0

\* the engine answers with a result the loop retries on
RetryAgain == NextUnbounded /\ retrying' # "none"

\* the engine's last answer in the running loop was not one it retries on
Settled == retrying = "none"

\* C22: Send, the Handshake loops and the goodbye loop of
\* openvas_server_free have no retry bound.  If the engine never answers
\* with transient results for ever (the loop's last answer is again and
\* again a settled one), every loop entered is followed by the return of its
\* function; if from some point on every answer is transient, the function
\* does not return from then on; and in every turn of a loop, however many
\* went before, the engine can answer with a transient result once more.
C22_NoRetryBound ==
  /\ []<>Settled => (InLoop ~> pc = "done")
  /\ <>[](~Settled) => <>[](pc # "done")
  /\ [](InLoop => ENABLED RetryAgain)

\* Send in its loop after a rehandshake answer, part of the payload written.
C22_Witness ==
  /\ op = "send" /\ pc = "s_loop"
  /\ retrying = E_REHANDSHAKE
  /\ 0 < left /\ left < Len(payload)


\* ---- the global initialisation of the engine

\* a creating call has returned with a failure
FailedCreationReturned == pc = "done" /\ op \in {"open", "new"} /\ ret < 0

\* a closing call has returned 0
ClosedReturned == pc = "done" /\ op \in {"free", "close"} /\ ret = 0

\* C23: the count of global initialisations of the engine is balanced: every
\* gnutls_global_init is matched by one gnutls_global_deinit, on the failure
\* path of the creating call or in the close of the session it created, so
\* the count is zero when a creation has returned with a failure and when
\* the session has been closed.
C23_GlobalInitBalanced ==
  /\ globalInit >= 0
  /\ FailedCreationReturned => globalInit = 0
  /\ ClosedReturned => globalInit = 0


\* ---- the SIGPIPE guard and two threads

BothReturned == \A t \in Threads : threads[t].pc = "done"

\* C24 as claimed, the part that two threads can break: when the guarded
\* operations of the threads never overlap, no engine write is made while
\* SIGPIPE is not ignored, and once both have returned the disposition is
\* the one before either started.
C24_NoOverlapNoRace ==
  ~race.overlap =>
     /\ ~race.unguarded
     /\ BothReturned => sigpipe = sigAtCall

\* C24 as amended: when the guarded operations never overlap, no engine
\* write is made while SIGPIPE is not ignored, and once both have returned
\* the disposition is the one before either started whenever every
\* restoring sigaction succeeded; when one failed it is that or ignore.
C24_GuardRace ==
  ~race.overlap =>
     /\ ~race.unguarded
     /\ (BothReturned /\ ~race.restoreFailed) => sigpipe = sigAtCall
     /\ BothReturned => sigpipe \in {sigAtCall, "SIG_IGN"}

\* C24 witness: the guarded operations overlapped, no sigaction failed, one
\* thread wrote while SIGPIPE was not ignored, both have returned and the
\* disposition is not the one before either started.
C24_Witness ==
  /\ race.overlap /\ race.unguarded /\ ~race.restoreFailed
  /\ BothReturned
  /\ \A t \in Threads : threads[t].ret = 0
  /\ sigpipe # sigAtCall


\* ---- openvas_server_open: one candidate at a time

\* the candidates a socket was asked for so far
Attempted ==
  {trace[i].n : i \in {j \in 1..Len(trace) : trace[j].call = "socket"}}

\* C25: openvas_server_open tries the candidates strictly one after
\* another.  At every point of the call at most one socket opened by it is
\* open; the socket of a candidate is created only after the socket of the
\* candidate before it was closed, the candidates being taken in list order
\* with none skipped or repeated; and after a connect that succeeded no
\* further socket is created and no further connect is made.
C25_OneCandidateAtATime ==
  op = "open" =>
     /\ Cardinality(OpenSocks) <= 1
     /\ \A s \in SockIds :
          socks[s] # "none" => \A j \in 1..(s - 1) : socks[j] = "closed"
     /\ \A i \in 1..Len(trace) :
          trace[i].call = "socket" =>
             /\ \A j \in 1..(i - 1) :
                  trace[j].call = "socket" => trace[j].n < trace[i].n
             /\ trace[i].n > 1 =>
                  \E j \in 1..(i - 1) :
                    /\ trace[j] = Ev("close", "ok", trace[i].n - 1)
                    /\ \A l \in (j + 1)..(i - 1) :
                         trace[l].call \notin {"socket", "connect"}
     /\ \A i \in 1..Len(trace) :
          trace[i] = Ev("connect", "ok", trace[i].n) =>
             \A j \in (i + 1)..Len(trace) :
               trace[j].call \notin {"socket", "connect"}
     /\ Attempted \subseteq 1..Len(addresses)
     /\ \A k \in Attempted :
          \A j \in 1..(k - 1) : j \in Attempted /\ ~addresses[j]

\* C25 witness: of three candidates the first refused and the second
\* accepted; the call returned the second socket, the third candidate,
\* which would have accepted too, never got a socket.
C25_Witness ==
  /\ op = "open" /\ pc = "done" /\ ret = 2
  /\ Len(addresses) = 3
  /\ ~addresses[1] /\ addresses[2] /\ addresses[3]
  /\ Attempted = {1, 2}
  /\ socks[1] = "closed" /\ socks[3] = "none"
  /\ OpenSocks = {2}

====
